---- MODULE Spec2Model ----
(***************************************************************************)
(* Battleship: the ship/board geometry model, the random fleet generator   *)
(* (ShipFactory) and the automated targeting engine (AutomaticPlayer).     *)
(*                                                                         *)
(* A cell is a pair <<x, y>> (column, row), 1-indexed.  A Python tuple or  *)
(* list is a sequence, a Python set is a set.  An operation that raises    *)
(* yields the record [raised |-> <exception name>] instead of its value.   *)
(***************************************************************************)
EXTENDS Integers, Sequences, FiniteSets, TLC

VARIABLES
    pc,               \* position of the modelled run
    fleet,            \* the list of ships handed to Board(ships=...)
    board,            \* the Board under attack: [ships, width, height], or a raised error
    target,           \* the cell handed to Board.is_attacked_at
    outcome,          \* the (is_ship_hit, has_ship_sunk) pair is_attacked_at returned
    tracker,          \* AutomaticPlayer.tracker
    successful_hits,  \* AutomaticPlayer.successful_hits
    sunken_ships,     \* AutomaticPlayer.sunken_ships
    last_target,      \* AutomaticPlayer.last_target
    ship_args,        \* the arguments handed to Ship(start, end, should_validate)
    the_ship,         \* a single Ship under test
    calls,            \* history: the cells passed to the_ship.receive_damage
    damaged_before,   \* history: the_ship.damaged_cells before the last receive_damage
    answer,           \* what the last is_near_cell / is_near_ship call returned
    factory,          \* the ShipFactory: [board_size, ships_per_length]
    ships,            \* generate_ships: the local list ships
    ship_to_test,     \* generate_ships: the local ship_to_test
    number_of_iterations,  \* generate_ships: the local number_of_iterations
    position,         \* generate_ships: how many ships the two for loops have passed
    restarted         \* history: generate_ships called itself again

vars == <<pc, fleet, board, target, outcome, tracker, successful_hits,
          sunken_ships, last_target, ship_args, the_ship, calls, damaged_before, answer,
          factory, ships, ship_to_test, number_of_iterations, position, restarted>>

-----------------------------------------------------------------------------
(* Bounds of the model *)

BoardWidth == 3
BoardHeight == 3

\* Board(width, height): the board's columns and rows
Columns == 1..BoardWidth
Rows == 1..BoardHeight
Grid == Columns \X Rows

\* the cells inputs are drawn from: the board and one column/row beyond it
Beyond == (1..(BoardWidth + 1)) \X (1..(BoardHeight + 1))

\* the board with the cells around it
Around == (0..(BoardWidth + 1)) \X (0..(BoardHeight + 1))

-----------------------------------------------------------------------------
(* Helpers *)

Range(s) == {s[i] : i \in 1..Len(s)}

Min(a, b) == IF a <= b THEN a ELSE b
Max(a, b) == IF a >= b THEN a ELSE b
Abs(a) == IF a >= 0 THEN a ELSE -a

Raises(r) == "raised" \in DOMAIN r

\* the value a local variable holds: the element of a one-element set
The(S) == CHOOSE value \in S : TRUE

\* stands for float("inf"), the default board_width/board_height of a Ship
Infinity == 1000000

\* None, where a cell is expected
None == <<0, 0>>

-----------------------------------------------------------------------------
(* class Ship *)

is_vertical(ship) == ship.x_start = ship.x_end

is_horizontal(ship) == ship.y_start = ship.y_end

\* a get_cells whose ranges stop one cell short of the end
get_cells_without_end(ship) ==
    IF is_vertical(ship) /\ is_horizontal(ship)
    THEN {<<ship.x_start, ship.y_start>>}
    ELSE IF is_horizontal(ship)
    THEN {<<ship.x_start + x_coordinate, ship.y_start>> :
              x_coordinate \in 0..(ship.x_end - ship.x_start - 1)}
    ELSE IF is_vertical(ship)
    THEN {<<ship.x_start, ship.y_start + y_coordinate>> :
              y_coordinate \in 0..(ship.y_end - ship.y_start - 1)}
    ELSE {None}

get_cells(ship) ==
    IF is_vertical(ship) /\ is_horizontal(ship)
    THEN {<<ship.x_start, ship.y_start>>}
    ELSE IF is_horizontal(ship)
    THEN {<<ship.x_start + x_coordinate, ship.y_start>> :
              x_coordinate \in 0..(ship.x_end - ship.x_start)}
    ELSE IF is_vertical(ship)
    THEN {<<ship.x_start, ship.y_start + y_coordinate>> :
              y_coordinate \in 0..(ship.y_end - ship.y_start)}
    ELSE {None}   \* raise ValueError: see Ship__init__

\* a Ship.__init__ that builds the ship whenever validation is not asked for
Ship__init__unvalidated(start, end, should_validate, board_width, board_height) ==
    LET coords == [x_start |-> Min(start[1], end[1]),
                   x_end   |-> Max(start[1], end[1]),
                   y_start |-> Min(start[2], end[2]),
                   y_end   |-> Max(start[2], end[2])]
        straight == is_horizontal(coords) \/ is_vertical(coords)
    IN  IF should_validate /\ ~straight
        THEN [raised |-> "ValueError"]
        ELSE [x_start |-> coords.x_start, x_end |-> coords.x_end,
              y_start |-> coords.y_start, y_end |-> coords.y_end,
              cells |-> IF straight THEN get_cells(coords) ELSE {},
              damaged_cells |-> {},
              board_width |-> board_width,
              board_height |-> board_height]

\* a Ship.__init__ that keeps the endpoints in the order given
Ship__init__as_given(start, end, should_validate, board_width, board_height) ==
    LET coords == [x_start |-> start[1], x_end |-> end[1],
                   y_start |-> start[2], y_end |-> end[2]]
        straight == is_horizontal(coords) \/ is_vertical(coords)
    IN  IF ~straight
        THEN [raised |-> "ValueError"]
        ELSE [x_start |-> coords.x_start, x_end |-> coords.x_end,
              y_start |-> coords.y_start, y_end |-> coords.y_end,
              cells |-> get_cells(coords),
              damaged_cells |-> {},
              board_width |-> board_width,
              board_height |-> board_height]

\* Ship(start, end, should_validate, board_width, board_height)
Ship__init__(start, end, should_validate, board_width, board_height) ==
    LET coords == [x_start |-> Min(start[1], end[1]),
                   x_end   |-> Max(start[1], end[1]),
                   y_start |-> Min(start[2], end[2]),
                   y_end   |-> Max(start[2], end[2])]
        straight == is_horizontal(coords) \/ is_vertical(coords)
    IN  IF should_validate /\ ~straight
        THEN [raised |-> "ValueError"]
        ELSE IF ~straight
        THEN [raised |-> "ValueError"]      \* raised by get_cells()
        ELSE [x_start |-> coords.x_start, x_end |-> coords.x_end,
              y_start |-> coords.y_start, y_end |-> coords.y_end,
              cells |-> get_cells(coords),
              damaged_cells |-> {},
              board_width |-> board_width,
              board_height |-> board_height]

length(ship) == Cardinality(ship.cells)

is_occupying_cell(ship, cell) == cell \in ship.cells

\* a receive_damage that reports a hit only the first time a cell is damaged
receive_damage_hit_first_time(ship, cell) ==
    is_occupying_cell(ship, cell) /\ cell \notin ship.damaged_cells

\* receive_damage returns ship_was_hit and updates the ship: both are given
receive_damage_hit(ship, cell) == is_occupying_cell(ship, cell)

\* a receive_damage that records the cell without looking at the ship's cells
receive_damage_unchecked(ship, cell) ==
    [ship EXCEPT !.damaged_cells = @ \cup {cell}]

\* a receive_damage that keeps the last damaged cell only
receive_damage_last_only(ship, cell) ==
    IF is_occupying_cell(ship, cell)
    THEN [ship EXCEPT !.damaged_cells = {cell}]
    ELSE ship

\* a receive_damage whose hit damages every cell of the ship
receive_damage_whole_ship(ship, cell) ==
    IF is_occupying_cell(ship, cell)
    THEN [ship EXCEPT !.damaged_cells = ship.cells]
    ELSE ship

receive_damage(ship, cell) ==
    IF is_occupying_cell(ship, cell)
    THEN [ship EXCEPT !.damaged_cells = @ \cup {cell}]
    ELSE ship

count_damaged_cells(ship) == Cardinality(ship.damaged_cells)

\* a has_sunk that is satisfied by any damage
has_sunk_when_damaged(ship) == ship.damaged_cells # {}

\* a has_sunk that counts one cell too few
has_sunk_by_count(ship) == count_damaged_cells(ship) >= length(ship) - 1

has_sunk(ship) == ship.damaged_cells = ship.cells

\* a get_neighbours that forgets the four diagonal neighbours
Ship_get_neighbours_no_diagonals(ship, cell) ==
    LET has_right  == cell[1] <= ship.board_width
        has_left   == cell[1] >= 2
        has_bottom == cell[2] <= ship.board_height
        has_top    == cell[2] >= 2
    IN  (IF has_right  THEN << <<cell[1] + 1, cell[2]>> >> ELSE << >>)
     \o (IF has_left   THEN << <<cell[1] - 1, cell[2]>> >> ELSE << >>)
     \o (IF has_bottom THEN << <<cell[1], cell[2] + 1>> >> ELSE << >>)
     \o (IF has_top    THEN << <<cell[1], cell[2] - 1>> >> ELSE << >>)

\* a get_neighbours whose right and bottom guards are strict
Ship_get_neighbours_strict_guards(ship, cell) ==
    LET has_right  == cell[1] < ship.board_width
        has_left   == cell[1] >= 2
        has_bottom == cell[2] < ship.board_height
        has_top    == cell[2] >= 2
    IN  (IF has_right  THEN << <<cell[1] + 1, cell[2]>> >> ELSE << >>)
     \o (IF has_left   THEN << <<cell[1] - 1, cell[2]>> >> ELSE << >>)
     \o (IF has_bottom THEN << <<cell[1], cell[2] + 1>> >> ELSE << >>)
     \o (IF has_top    THEN << <<cell[1], cell[2] - 1>> >> ELSE << >>)
     \o (IF has_top /\ has_right    THEN << <<cell[1] + 1, cell[2] - 1>> >> ELSE << >>)
     \o (IF has_top /\ has_left     THEN << <<cell[1] - 1, cell[2] - 1>> >> ELSE << >>)
     \o (IF has_bottom /\ has_right THEN << <<cell[1] + 1, cell[2] + 1>> >> ELSE << >>)
     \o (IF has_bottom /\ has_right THEN << <<cell[1] - 1, cell[2] + 1>> >> ELSE << >>)

\* the tuple of neighbours, in the order the code appends them
Ship_get_neighbours(ship, cell) ==
    LET has_right  == cell[1] <= ship.board_width
        has_left   == cell[1] >= 2
        has_bottom == cell[2] <= ship.board_height
        has_top    == cell[2] >= 2
    IN  (IF has_right  THEN << <<cell[1] + 1, cell[2]>> >> ELSE << >>)
     \o (IF has_left   THEN << <<cell[1] - 1, cell[2]>> >> ELSE << >>)
     \o (IF has_bottom THEN << <<cell[1], cell[2] + 1>> >> ELSE << >>)
     \o (IF has_top    THEN << <<cell[1], cell[2] - 1>> >> ELSE << >>)
     \o (IF has_top /\ has_right    THEN << <<cell[1] + 1, cell[2] - 1>> >> ELSE << >>)
     \o (IF has_top /\ has_left     THEN << <<cell[1] - 1, cell[2] - 1>> >> ELSE << >>)
     \o (IF has_bottom /\ has_right THEN << <<cell[1] + 1, cell[2] + 1>> >> ELSE << >>)
     \o (IF has_bottom /\ has_right THEN << <<cell[1] - 1, cell[2] + 1>> >> ELSE << >>)

is_near_cell(ship, cell) ==
    \E cell_of_ship \in ship.cells :
        cell \in Range(Ship_get_neighbours(ship, cell_of_ship))

\* an is_near_ship that looks at the start cell of the other ship only
is_near_ship_start_only(ship, other_ship) ==
    is_near_cell(ship, <<other_ship.x_start, other_ship.y_start>>)

is_near_ship(ship, other_ship) ==
    \E cell_of_other_ship \in other_ship.cells :
        is_near_cell(ship, cell_of_other_ship)

-----------------------------------------------------------------------------
(* class ShipFactory; f is the factory, [board_size, ships_per_length]      *)

max_iterations == 1000

is_ship_in_bound(f, ship) ==
    /\ 1 <= ship.x_start /\ ship.x_start <= f.board_size[1]
    /\ 1 <= ship.x_end   /\ ship.x_end   <= f.board_size[1]
    /\ 1 <= ship.y_start /\ ship.y_start <= f.board_size[2]
    /\ 1 <= ship.y_end   /\ ship.y_end   <= f.board_size[2]

are_overlapping(ship, other_ship) ==
    \E cell_of_ship \in ship.cells : cell_of_ship \in other_ship.cells

\* a check_coordinates that tests the overlap but not the nearness
check_coordinates_overlap_only(f, ships_, ship_to_test_) ==
    IF Raises(ship_to_test_) THEN FALSE
    ELSE IF ~is_ship_in_bound(f, ship_to_test_) THEN FALSE
    ELSE \A i \in 1..Len(ships_) : ~are_overlapping(ships_[i], ship_to_test_)

\* ship_to_test is None: it is Unbuilt
check_coordinates(f, ships_, ship_to_test_) ==
    IF Raises(ship_to_test_) THEN FALSE
    ELSE IF ~is_ship_in_bound(f, ship_to_test_) THEN FALSE
    ELSE \A i \in 1..Len(ships_) :
            /\ ~are_overlapping(ships_[i], ship_to_test_)
            /\ ~is_near_ship(ships_[i], ship_to_test_)

\* random.randint(a, b): the values it can return; none when it raises ValueError
randint(a, b) == a..b

\* a generate_random_coordinates whose end lies dimension cells after the start
generate_random_coordinates_one_longer(f, dimension, condition_vertical) ==
    IF condition_vertical = 1
    THEN { << <<x_start, y_start>>, <<x_start, y_start + dimension>> >> :
             x_start \in randint(1, f.board_size[1]),
             y_start \in randint(1, f.board_size[2] - dimension + 1) }
    ELSE { << <<x_start, y_start>>, <<x_start + dimension, y_start>> >> :
             x_start \in randint(1, f.board_size[1] - dimension + 1),
             y_start \in randint(1, f.board_size[2]) }

\* the <<start, end>> pairs generate_random_coordinates(dimension) can return
\* when random.randint(0, 1) gave condition_vertical
generate_random_coordinates(f, dimension, condition_vertical) ==
    IF condition_vertical = 1
    THEN { << <<x_start, y_start>>, <<x_start, y_start + dimension - 1>> >> :
             x_start \in randint(1, f.board_size[1]),
             y_start \in randint(1, f.board_size[2] - dimension + 1) }
    ELSE { << <<x_start, y_start>>, <<x_start + dimension - 1, y_start>> >> :
             x_start \in randint(1, f.board_size[1] - dimension + 1),
             y_start \in randint(1, f.board_size[2]) }

\* generate_random_coordinates raises ValueError: a randint range is empty
generate_random_coordinates_raises(f, dimension, condition_vertical) ==
    IF condition_vertical = 1
    THEN f.board_size[1] < 1 \/ f.board_size[2] - dimension + 1 < 1
    ELSE f.board_size[1] - dimension + 1 < 1 \/ f.board_size[2] < 1

\* the ship lengths in the order the two for loops of generate_ships visit them;
\* ships_per_length is the dict as a sequence of [length, count] items
RECURSIVE lengths_in_order(_)
lengths_in_order(ships_per_length) ==
    IF ships_per_length = << >> THEN << >>
    ELSE [ship_nb \in 1..Head(ships_per_length).count |-> Head(ships_per_length).length]
           \o lengths_in_order(Tail(ships_per_length))

-----------------------------------------------------------------------------
(* class Board *)

are_ships_within_bounds(ships_, width, height) ==
    \A i \in 1..Len(ships_) : \A cell \in ships_[i].cells :
        /\ 1 <= cell[1] /\ cell[1] <= width
        /\ 1 <= cell[2] /\ cell[2] <= height

are_ships_too_close(ships_) ==
    \E i, j \in 1..Len(ships_) :
        /\ i # j
        /\ \/ are_overlapping(ships_[i], ships_[j])
           \/ is_near_ship(ships_[i], ships_[j])

\* Board(ships, width, height)
Board__init__(ships_, width, height) ==
    IF ~are_ships_within_bounds(ships_, width, height)
    THEN [raised |-> "ValueError"]
    ELSE IF are_ships_too_close(ships_)
    THEN [raised |-> "KeyError"]
    ELSE [ships |-> ships_, width |-> width, height |-> height]

\* the board after is_attacked_at(cell): the ship occupying the cell is damaged
is_attacked_at(b, cell) ==
    [b EXCEPT !.ships = [i \in 1..Len(b.ships) |-> receive_damage(b.ships[i], cell)]]

\* the (is_ship_hit, has_ship_sunk) pair is_attacked_at(cell) returns
is_attacked_at_result(b, cell) ==
    LET after == is_attacked_at(b, cell)
        is_ship_hit == \E i \in 1..Len(b.ships) : receive_damage_hit(b.ships[i], cell)
        has_ship_sunk ==
            \E i \in 1..Len(b.ships) :
                /\ receive_damage_hit(b.ships[i], cell)
                /\ ~has_sunk(b.ships[i])
                /\ has_sunk(after.ships[i])
    IN  <<is_ship_hit, has_ship_sunk>>

have_all_ships_sunk(b) == \A i \in 1..Len(b.ships) : has_sunk(b.ships[i])

\* Player.has_lost
has_lost == have_all_ships_sunk(board)

-----------------------------------------------------------------------------
(* class AutomaticPlayer.  self.board.width and self.board.height are       *)
(* BoardWidth and BoardHeight: both sides play on boards of one size.       *)

\* what a call that exceeded the recursion limit leaves in place of cells
RecursionError == <<-1, -1>>

\* an is_it_within_bounds that lets every cell through
is_it_within_bounds_everywhere(cell) ==
    cell[1] \in Int /\ cell[2] \in Int

\* an is_it_within_bounds with strict comparisons
is_it_within_bounds_strict(cell) ==
    /\ 1 < cell[1] /\ cell[1] < BoardWidth
    /\ 1 < cell[2] /\ cell[2] < BoardHeight

is_it_within_bounds(cell) ==
    /\ 1 <= cell[1] /\ cell[1] <= BoardWidth
    /\ 1 <= cell[2] /\ cell[2] <= BoardHeight

\* a get_neighbours that appends the diagonal neighbours during a hunt too
Player_get_neighbours_with_diagonals(cell, cell_hunt) ==
    LET has_right  == cell[1] <= BoardWidth - 1
        has_left   == cell[1] >= 2
        has_bottom == cell[2] <= BoardHeight - 1
        has_top    == cell[2] >= 2
    IN  (IF has_right  THEN << <<cell[1] + 1, cell[2]>> >> ELSE << >>)
     \o (IF has_left   THEN << <<cell[1] - 1, cell[2]>> >> ELSE << >>)
     \o (IF has_bottom THEN << <<cell[1], cell[2] + 1>> >> ELSE << >>)
     \o (IF has_top    THEN << <<cell[1], cell[2] - 1>> >> ELSE << >>)
     \o (IF has_top /\ has_right    THEN << <<cell[1] + 1, cell[2] - 1>> >> ELSE << >>)
     \o (IF has_top /\ has_left     THEN << <<cell[1] - 1, cell[2] - 1>> >> ELSE << >>)
     \o (IF has_bottom /\ has_right THEN << <<cell[1] + 1, cell[2] + 1>> >> ELSE << >>)
     \o (IF has_bottom /\ has_right THEN << <<cell[1] - 1, cell[2] + 1>> >> ELSE << >>)

\* the tuple of neighbours, in the order the code appends them
Player_get_neighbours(cell, cell_hunt) ==
    LET has_right  == cell[1] <= BoardWidth - 1
        has_left   == cell[1] >= 2
        has_bottom == cell[2] <= BoardHeight - 1
        has_top    == cell[2] >= 2
    IN  (IF has_right  THEN << <<cell[1] + 1, cell[2]>> >> ELSE << >>)
     \o (IF has_left   THEN << <<cell[1] - 1, cell[2]>> >> ELSE << >>)
     \o (IF has_bottom THEN << <<cell[1], cell[2] + 1>> >> ELSE << >>)
     \o (IF has_top    THEN << <<cell[1], cell[2] - 1>> >> ELSE << >>)
     \o (IF cell_hunt THEN << >> ELSE
           (IF has_top /\ has_right    THEN << <<cell[1] + 1, cell[2] - 1>> >> ELSE << >>)
        \o (IF has_top /\ has_left     THEN << <<cell[1] - 1, cell[2] - 1>> >> ELSE << >>)
        \o (IF has_bottom /\ has_right THEN << <<cell[1] + 1, cell[2] + 1>> >> ELSE << >>)
        \o (IF has_bottom /\ has_right THEN << <<cell[1] - 1, cell[2] + 1>> >> ELSE << >>))

\* a get_all_cells that stops at the neighbours of cell
get_all_cells_neighbours_only(hits, cell, except_cell, depth) ==
    LET neighbours == Player_get_neighbours(cell, FALSE)
    IN  SelectSeq(neighbours, LAMBDA n : n \in Range(hits) /\ n # except_cell)

\* the recursion of get_all_cells; hits is self.successful_hits.  A walk longer
\* than the board has cells repeats a cell and so never ends: depth counts
\* the nested calls left before that is certain.
\* call[<<cell, except_cell, depth>>] is one call of the method.
get_all_cells(hits, cell, except_cell, depth) ==
    LET call[a \in Around \X Around \X (0..depth)] ==
            LET neighbours == Player_get_neighbours(a[1], FALSE)
                gathered[i \in 0..Len(neighbours)] ==
                    IF i = 0 THEN << >>
                    ELSE IF neighbours[i] \in Range(hits) /\ neighbours[i] # a[2]
                         THEN gathered[i - 1] \o << neighbours[i] >>
                                \o call[<<neighbours[i], a[1], a[3] - 1>>]
                         ELSE gathered[i - 1]
            IN  IF a[3] = 0 THEN << RecursionError >> ELSE gathered[Len(neighbours)]
    IN  call[<<cell, except_cell, depth>>]

is_this_ship_vertical(cells) == cells[1][1] = cells[2][1]

\* one pass of the for loop of find_start_and_end along coordinate k (1: x,
\* 2: y): p holds min, max, start and end before the pass, c is the cell
scan_cell(p, c, k) ==
    [min   |-> IF p.min > c[k] THEN c[k] ELSE p.min,
     start |-> IF p.min > c[k] THEN c ELSE p.start,
     max   |-> IF p.max < c[k] THEN c[k] ELSE p.max,
     end   |-> IF p.max < c[k] THEN c ELSE p.end]

\* the for loop of find_start_and_end over cells: <<start, end>>
extremities(cells, k, size) ==
    LET scan[i \in 0..Len(cells)] ==
            IF i = 0
            THEN [min |-> size + 1, max |-> 0, start |-> None, end |-> None]
            ELSE The({ scan_cell(p, cells[i], k) : p \in { scan[i - 1] } })
    IN  The({ <<p.start, p.end>> : p \in { scan[Len(cells)] } })

\* <<start, end>> of the ship whose cells are all_cells (cell itself is last)
start_and_end_of(all_cells, cell) ==
    IF Len(all_cells) = 1 THEN <<cell, cell>>
    ELSE IF is_this_ship_vertical(all_cells)
    THEN extremities(all_cells, 2, BoardHeight)
    ELSE extremities(all_cells, 1, BoardWidth)

\* <<start, end>>
find_start_and_end(hits, cell) ==
    The({ start_and_end_of(all_cells, cell) :
            all_cells \in { get_all_cells(hits, cell, cell, BoardWidth * BoardHeight + 1)
                               \o << cell >> } })

\* find_start_and_end does not return: the recursion limit is exceeded
find_start_and_end_raises(hits, cell) ==
    RecursionError \in Range(get_all_cells(hits, cell, cell, BoardWidth * BoardHeight + 1))

\* list.index + list.pop: the list without the first occurrence of cell
RemoveFirst(list, cell) ==
    The({ [k \in 1..(Len(list) - 1) |-> IF k < index THEN list[k] ELSE list[k + 1]] :
            index \in { CHOOSE i \in 1..Len(list) :
                            list[i] = cell /\ \A j \in 1..(i - 1) : list[j] # cell } })

\* the cells of all sunken ships, ship by ship, as is_there_a_hunt visits them
SetToSeq(S) ==
    LET in_order[T \in SUBSET S] ==
            IF T = {} THEN << >>
            ELSE The({ << c >> \o in_order[T \ {c}] : c \in { CHOOSE c \in T : TRUE } })
    IN  in_order[S]

SunkenCells(sunken) ==
    LET from[k \in 1..(Len(sunken) + 1)] ==
            IF k > Len(sunken) THEN << >>
            ELSE SetToSeq(sunken[k].cells) \o from[k + 1]
    IN  from[1]

\* list_of_hits after the removals, or a raised ValueError (list.index);
\* popped[k] is the outcome of the first k removals
PopAll(list_of_hits, to_remove) ==
    LET popped[k \in 0..Len(to_remove)] ==
            IF k = 0 THEN [list |-> list_of_hits]
            ELSE The({ IF Raises(before) THEN before
                       ELSE IF to_remove[k] \notin Range(before.list)
                       THEN [raised |-> "ValueError"]
                       ELSE [list |-> RemoveFirst(before.list, to_remove[k])] :
                       before \in { popped[k - 1] } })
    IN  popped[Len(to_remove)]

\* an is_there_a_hunt that leaves the cells of the sunken ships in the list
is_there_a_hunt_keeps_sunken == [list |-> successful_hits]

\* [list |-> list_of_hits], the hunt being on iff it is not empty
is_there_a_hunt ==
    The({ PopAll(successful_hits, cells) : cells \in { SunkenCells(sunken_ships) } })

are_there_sunken_ships == Len(sunken_ships) > 0

\* an is_close_to_ship whose dead zone is two cells wide
is_close_to_ship_two_steps(cell) ==
    \E i \in 1..Len(sunken_ships) : \E cell_of_ship \in sunken_ships[i].cells :
        /\ Abs(cell[1] - cell_of_ship[1]) <= 2
        /\ Abs(cell[2] - cell_of_ship[2]) <= 2

\* an is_close_to_ship that looks at the four sides of the ship's cells only
is_close_to_ship_sides_only(cell) ==
    \E i \in 1..Len(sunken_ships) : \E cell_of_ship \in sunken_ships[i].cells :
        cell \in Range(Ship_get_neighbours_no_diagonals(sunken_ships[i], cell_of_ship))

is_close_to_ship(cell) ==
    \E i \in 1..Len(sunken_ships) : is_near_cell(sunken_ships[i], cell)

\* the two cells past the ends of the ship spanning start_end = <<start, end>>
possible_cells(start_end) ==
    IF start_end[1][1] = start_end[2][1]
    THEN << <<start_end[1][1], start_end[1][2] - 1>>, <<start_end[2][1], start_end[2][2] + 1>> >>
    ELSE << <<start_end[1][1] - 1, start_end[1][2]>>, <<start_end[2][1] + 1, start_end[2][2]>> >>

\* the tuple possible_cells, from which random.choice draws the new target
get_better_target(list_of_hits) ==
    The({ possible_cells(start_end) :
            start_end \in { find_start_and_end(successful_hits, list_of_hits[1]) } })

\* a hunting_cell that always looks for a neighbour of the first open hit
hunting_cell_first_hit_only(cell, list_of_hits, choice) ==
    IF cell \in Range(Player_get_neighbours(list_of_hits[1], TRUE))
    THEN <<TRUE, cell>>
    ELSE <<FALSE, cell>>

\* a hunting_cell that, with a single open hit, takes any cell of its row or
\* column
hunting_cell_along_line(cell, list_of_hits, choice) ==
    IF Len(list_of_hits) > 1
    THEN <<TRUE, get_better_target(list_of_hits)[choice]>>
    ELSE IF cell[1] = list_of_hits[1][1] \/ cell[2] = list_of_hits[1][2]
         THEN <<TRUE, cell>>
         ELSE <<FALSE, cell>>

\* a hunting_cell that takes any cell while there is a single open hit
hunting_cell_any(cell, list_of_hits, choice) ==
    IF Len(list_of_hits) > 1
    THEN <<TRUE, get_better_target(list_of_hits)[choice]>>
    ELSE <<TRUE, cell>>

\* <<is_a_hunting_cell, cell>>; choice is the draw of random.choice
hunting_cell(cell, list_of_hits, choice) ==
    IF Len(list_of_hits) > 1
    THEN <<TRUE, get_better_target(list_of_hits)[choice]>>
    ELSE IF cell \in Range(Player_get_neighbours(list_of_hits[1], TRUE))
         THEN <<TRUE, cell>>
         ELSE <<FALSE, cell>>

\* a get_random_coordinates whose second draw is always 1
get_random_coordinates_first_row == Columns \X {1}

get_random_coordinates == Columns \X Rows

\* a receive_result that records the last target whether it was a hit or not
receive_result_records_every_target(is_ship_hit, has_ship_sunk) ==
    The({ IF is_ship_hit /\ has_ship_sunk
          THEN The({ [successful_hits |-> hits, sunken_ships |-> Append(sunken_ships, ship)] :
                     ship \in { Ship__init__(se[1], se[2], TRUE, Infinity, Infinity) :
                                  se \in { find_start_and_end(hits, last_target) } } })
          ELSE [successful_hits |-> hits, sunken_ships |-> sunken_ships] :
          hits \in { Append(successful_hits, last_target) } })

\* a receive_result that records the cell of the sinking hit as the sunken ship
receive_result_last_cell_only(is_ship_hit, has_ship_sunk) ==
    LET hits == IF is_ship_hit THEN Append(successful_hits, last_target)
                ELSE successful_hits
        ship == Ship__init__(last_target, last_target, TRUE, Infinity, Infinity)
    IN  IF is_ship_hit /\ has_ship_sunk
        THEN [successful_hits |-> hits, sunken_ships |-> Append(sunken_ships, ship)]
        ELSE [successful_hits |-> hits, sunken_ships |-> sunken_ships]

\* a receive_result that records a hit only when the ship has not sunk
receive_result_drops_last_hit(is_ship_hit, has_ship_sunk) ==
    LET hits == IF is_ship_hit /\ ~has_ship_sunk THEN Append(successful_hits, last_target)
                ELSE successful_hits
        se == find_start_and_end(hits, last_target)
        ship == Ship__init__(se[1], se[2], TRUE, Infinity, Infinity)
    IN  IF is_ship_hit /\ has_ship_sunk
        THEN [successful_hits |-> hits, sunken_ships |-> Append(sunken_ships, ship)]
        ELSE [successful_hits |-> hits, sunken_ships |-> sunken_ships]

\* self.successful_hits and self.sunken_ships after receive_result, with the
\* exception it raised, if any
receive_result(is_ship_hit, has_ship_sunk) ==
    The({ IF is_ship_hit /\ has_ship_sunk
          THEN IF find_start_and_end_raises(hits, last_target)
               THEN [raised |-> "RecursionError",
                     successful_hits |-> hits, sunken_ships |-> sunken_ships]
               ELSE The({ IF Raises(ship)
                          THEN [raised |-> "ValueError",
                                successful_hits |-> hits, sunken_ships |-> sunken_ships]
                          ELSE [successful_hits |-> hits,
                                sunken_ships |-> Append(sunken_ships, ship)] :
                          ship \in { Ship__init__(se[1], se[2], TRUE, Infinity, Infinity) :
                                       se \in { find_start_and_end(hits, last_target) } } })
          ELSE [successful_hits |-> hits, sunken_ships |-> sunken_ships] :
          hits \in { IF is_ship_hit THEN Append(successful_hits, last_target)
                     ELSE successful_hits } })

\* a generate_random_target that does not look at the tracker
generate_random_target_repeats ==
    LET list_of_hits == is_there_a_hunt.list
        hunt == Len(list_of_hits) > 0
    IN  { c \in
            { (IF hunt THEN hunting_cell(d[1], list_of_hits, d[2])[2] ELSE d[1]) :
                d \in { e \in get_random_coordinates \X {1, 2} :
                          (~hunt) \/ hunting_cell(e[1], list_of_hits, e[2])[1] } } :
            /\ is_it_within_bounds(c)
            /\ ~(are_there_sunken_ships /\ is_close_to_ship(c)) }

\* the cells the while loop of generate_random_target can leave with
generate_random_target ==
    UNION {
        { c \in
            (IF Len(list_of_hits) > 0
             THEN { found[2] :
                      found \in { h \in { hunting_cell(d[1], list_of_hits, d[2]) :
                                            d \in get_random_coordinates \X {1, 2} } : h[1] } }
             ELSE get_random_coordinates) :
            /\ c \notin tracker
            /\ is_it_within_bounds(c)
            /\ ~(are_there_sunken_ships /\ is_close_to_ship(c)) } :
        list_of_hits \in { is_there_a_hunt.list } }

-----------------------------------------------------------------------------
(* Values of the variables a specification does not use *)

Unbuilt == [raised |-> "NotConstructed"]
NoOutcome == <<FALSE, FALSE>>
NoArgs == [start |-> None, end |-> None, should_validate |-> TRUE]

board_idle == fleet = << >> /\ board = Unbuilt /\ target = None /\ outcome = NoOutcome
player_idle ==
    tracker = {} /\ successful_hits = << >> /\ sunken_ships = << >> /\ last_target = None
NoAnswer == [op |-> "none"]
ship_idle ==
    /\ ship_args = NoArgs /\ the_ship = Unbuilt /\ calls = {} /\ damaged_before = {}
    /\ answer = NoAnswer

NoFactory == [board_size |-> <<0, 0>>, ships_per_length |-> << >>]
factory_idle ==
    /\ factory = NoFactory /\ ships = << >> /\ ship_to_test = Unbuilt
    /\ number_of_iterations = 0 /\ position = 0 /\ restarted = FALSE

board_vars == <<fleet, board, target, outcome>>
factory_vars == <<factory, ships, ship_to_test, number_of_iterations, position, restarted>>
player_vars == <<tracker, successful_hits, sunken_ships, last_target>>
ship_vars == <<ship_args, the_ship, calls, damaged_before, answer>>

-----------------------------------------------------------------------------
(* One ship: construction, then any calls of receive_damage *)

ShipAreaWidth == 3
ShipAreaHeight == 2
ShipArea == (1..ShipAreaWidth) \X (1..ShipAreaHeight)

InitShip ==
    /\ pc = "ship_new"
    /\ \E start \in ShipArea, end \in ShipArea, should_validate \in BOOLEAN :
           ship_args = [start |-> start, end |-> end, should_validate |-> should_validate]
    /\ the_ship = Unbuilt
    /\ calls = {}
    /\ damaged_before = {}
    /\ answer = NoAnswer
    /\ board_idle /\ player_idle /\ factory_idle

NewShip ==
    /\ pc = "ship_new"
    /\ the_ship' = Ship__init__(ship_args.start, ship_args.end, ship_args.should_validate,
                                Infinity, Infinity)
    /\ pc' = IF Raises(the_ship') THEN "ship_failed" ELSE "ship"
    /\ UNCHANGED <<ship_args, calls, damaged_before, answer, board_vars, player_vars, factory_vars>>

ReceiveDamage ==
    /\ pc = "ship"
    /\ \E cell \in ShipArea :
          /\ the_ship' = receive_damage(the_ship, cell)
          /\ outcome' = <<receive_damage_hit(the_ship, cell), has_sunk(the_ship')>>
          /\ target' = cell
          /\ calls' = calls \cup {cell}
          /\ damaged_before' = the_ship.damaged_cells
    /\ UNCHANGED <<pc, ship_args, answer, fleet, board, player_vars, factory_vars>>

NextShip == NewShip \/ ReceiveDamage

SpecShip == InitShip /\ [][NextShip]_vars

-----------------------------------------------------------------------------
(* Two ships and the nearness queries on them *)

\* the ships the program builds: Ship(start, end) with the default, unbounded
\* board_width and board_height, anywhere; and Ship(start, end, board_width,
\* board_height) as ShipFactory builds it, inside that board
NearShips ==
    { Ship__init__(ends[1], ends[2], TRUE, Infinity, Infinity) :
        ends \in { e \in Beyond \X Beyond : e[1][1] = e[2][1] \/ e[1][2] = e[2][2] } }
    \cup
    { Ship__init__(ends[1], ends[2], TRUE, BoardWidth, BoardHeight) :
        ends \in { e \in Grid \X Grid : e[1][1] = e[2][1] \/ e[1][2] = e[2][2] } }

InitNear ==
    /\ pc = "near"
    /\ fleet \in { << a, b >> : a \in NearShips, b \in NearShips }
    /\ board = Unbuilt /\ target = None /\ outcome = NoOutcome
    /\ player_idle /\ ship_idle /\ factory_idle

\* fleet[1].is_near_cell(cell)
IsNearCell ==
    /\ pc = "near"
    /\ \E cell \in Beyond :
          /\ target' = cell
          /\ answer' = [op |-> "is_near_cell", value |-> is_near_cell(fleet[1], cell)]
    /\ UNCHANGED <<pc, fleet, board, outcome, ship_args, the_ship, calls, damaged_before,
                   player_vars, factory_vars>>

\* fleet[1].is_near_ship(fleet[2]) and fleet[2].is_near_ship(fleet[1])
IsNearShip ==
    /\ pc = "near"
    /\ target' = None
    /\ answer' = [op |-> "is_near_ship",
                  value |-> is_near_ship(fleet[1], fleet[2]),
                  swapped |-> is_near_ship(fleet[2], fleet[1])]
    /\ UNCHANGED <<pc, fleet, board, outcome, ship_args, the_ship, calls, damaged_before,
                   player_vars, factory_vars>>

NextNear == IsNearCell \/ IsNearShip

SpecNear == InitNear /\ [][NextNear]_vars

-----------------------------------------------------------------------------
(* One board: construction from any fleet of one or two ships, then any     *)
(* attacks                                                                  *)

\* the ships a caller can build, on the board or partly beyond it
InputShips ==
    { Ship__init__(ends[1], ends[2], TRUE, Infinity, Infinity) :
        ends \in { e \in Beyond \X Beyond : e[1][1] = e[2][1] \/ e[1][2] = e[2][2] } }

InputFleets ==
    { << a >> : a \in InputShips } \cup { << a, b >> : a \in InputShips, b \in InputShips }

InitBoard ==
    /\ pc = "board_new"
    /\ fleet \in InputFleets
    /\ board = Unbuilt
    /\ target = None
    /\ outcome = NoOutcome
    /\ player_idle /\ ship_idle /\ factory_idle

NewBoard ==
    /\ pc = "board_new"
    /\ board' = Board__init__(fleet, BoardWidth, BoardHeight)
    /\ pc' = IF Raises(board') THEN "board_failed" ELSE "board"
    /\ UNCHANGED <<fleet, target, outcome, player_vars, ship_vars, factory_vars>>

IsAttackedAt ==
    /\ pc = "board"
    /\ \E cell \in Grid :
          /\ target' = cell
          /\ outcome' = is_attacked_at_result(board, cell)
          /\ board' = is_attacked_at(board, cell)
    /\ UNCHANGED <<pc, fleet, player_vars, ship_vars, factory_vars>>

NextBoard == NewBoard \/ IsAttackedAt

SpecBoard == InitBoard /\ [][NextBoard]_vars

-----------------------------------------------------------------------------
(* One game: the AutomaticPlayer attacks a legal board until its fleet is   *)
(* sunk.  Each turn: select_target, Board.is_attacked_at, receive_result.   *)

\* the fleets of a game: one or two ships, listed as ShipFactory.generate_ships
\* lists them by default, from the shortest to the longest
GameFleets ==
    { f \in InputFleets : \A i, j \in 1..Len(f) : i < j => length(f[i]) <= length(f[j]) }

\* the opposing board is built from a fleet the Board constructor accepts
Init ==
    /\ pc = "select"
    /\ fleet \in GameFleets
    /\ board = Board__init__(fleet, BoardWidth, BoardHeight)
    /\ ~Raises(board)
    /\ target = None
    /\ outcome = NoOutcome
    /\ player_idle /\ ship_idle /\ factory_idle

\* select_target; a raise inside it ends the game in "failed"
SelectTarget ==
    /\ pc = "select"
    /\ \E hunt \in { is_there_a_hunt } :
         IF Raises(hunt)
            \/ (Len(hunt.list) > 1 /\ find_start_and_end_raises(successful_hits, hunt.list[1]))
         THEN /\ pc' = "failed"
              /\ UNCHANGED <<board_vars, player_vars, ship_vars, factory_vars>>
         ELSE \E target_cell \in generate_random_target :
                /\ last_target' = target_cell
                /\ tracker' = tracker \cup {target_cell}
                /\ pc' = "attack"
                /\ UNCHANGED <<board_vars, successful_hits, sunken_ships, ship_vars,
                               factory_vars>>

\* the opposing board resolves the attack
Attack ==
    /\ pc = "attack"
    /\ outcome' = is_attacked_at_result(board, last_target)
    /\ board' = is_attacked_at(board, last_target)
    /\ pc' = "receive"
    /\ UNCHANGED <<fleet, target, player_vars, ship_vars, factory_vars>>

\* receive_result(is_ship_hit, has_ship_sunk); the game ends when has_lost()
ReceiveResult ==
    /\ pc = "receive"
    /\ \E result \in { receive_result(outcome[1], outcome[2]) } :
           /\ successful_hits' = result.successful_hits
           /\ sunken_ships' = result.sunken_ships
           /\ pc' = IF Raises(result) THEN "failed"
                    ELSE IF has_lost THEN "over" ELSE "select"
    /\ outcome' = NoOutcome       \* the pair has been handed over
    /\ UNCHANGED <<fleet, board, target, tracker, last_target, ship_vars, factory_vars>>

Next == SelectTarget \/ Attack \/ ReceiveResult

Spec == Init /\ [][Next]_vars

\* the game goes on while a step is left to take: the turn loop calls
\* select_target, is_attacked_at and receive_result in turn until has_lost(),
\* and the fair draws of generate_random_target end its while loop whenever
\* some cell passes the filters
SpecFair == Spec /\ WF_vars(Next)

-----------------------------------------------------------------------------
(* One call of ShipFactory.generate_ships *)

\* the board_size the factory is built with: a board narrower than it is high,
\* so that the two dimensions are told apart
FactoryBoardSize == <<BoardWidth - 1, BoardHeight>>

\* the dicts ships_per_length the factory is built with: two ships of one
\* length, two ships of two lengths, a ship as long as the board is high (and
\* longer than it is wide), a ship longer than the board
ShipsPerLength ==
    { << [length |-> 1, count |-> 2] >>,
      << [length |-> 2, count |-> 1], [length |-> 1, count |-> 1] >>,
      << [length |-> BoardHeight, count |-> 1] >>,
      << [length |-> BoardHeight + 1, count |-> 1] >> }

InitFactory ==
    /\ pc = "generate"
    /\ \E spl \in ShipsPerLength :
          factory = [board_size |-> FactoryBoardSize, ships_per_length |-> spl]
    /\ ships = << >>
    /\ ship_to_test = Unbuilt
    /\ number_of_iterations = 0
    /\ position = 0
    /\ restarted = FALSE
    /\ board_idle /\ player_idle /\ ship_idle

\* the length of the ship the for loops are at
ship_length == lengths_in_order(factory.ships_per_length)[position + 1]

\* a loop body whose restart starts the loops again over the ships placed
TestShip_restarts_over_fleet ==
    /\ pc = "generate"
    /\ position < Len(lengths_in_order(factory.ships_per_length))
    /\ ~check_coordinates(factory, ships, ship_to_test)
    /\ \E condition_vertical \in randint(0, 1) :
          IF generate_random_coordinates_raises(factory, ship_length, condition_vertical)
          THEN /\ pc' = "generate_failed"
               /\ UNCHANGED <<ships, ship_to_test, number_of_iterations, position, restarted>>
          ELSE \E se \in generate_random_coordinates(factory, ship_length, condition_vertical) :
                 IF number_of_iterations + 1 > max_iterations
                 THEN /\ ship_to_test' = Unbuilt
                      /\ number_of_iterations' = 0
                      /\ position' = 0
                      /\ restarted' = TRUE
                      /\ UNCHANGED <<pc, ships>>
                 ELSE /\ ship_to_test' = Ship__init__(se[1], se[2], TRUE,
                                                       factory.board_size[1],
                                                       factory.board_size[2])
                      /\ number_of_iterations' = number_of_iterations + 1
                      /\ UNCHANGED <<pc, ships, position, restarted>>
    /\ UNCHANGED <<factory, board_vars, player_vars, ship_vars>>

\* a loop body whose restart resets the counter but keeps the ships placed
TestShip_keeps_ships ==
    /\ pc = "generate"
    /\ position < Len(lengths_in_order(factory.ships_per_length))
    /\ ~check_coordinates(factory, ships, ship_to_test)
    /\ \E condition_vertical \in randint(0, 1) :
          IF generate_random_coordinates_raises(factory, ship_length, condition_vertical)
          THEN /\ pc' = "generate_failed"
               /\ UNCHANGED <<ships, ship_to_test, number_of_iterations, position, restarted>>
          ELSE \E se \in generate_random_coordinates(factory, ship_length, condition_vertical) :
                 IF number_of_iterations + 1 > max_iterations
                 THEN /\ number_of_iterations' = 0
                      /\ restarted' = TRUE
                      /\ UNCHANGED <<pc, ships, ship_to_test, position>>
                 ELSE /\ ship_to_test' = Ship__init__(se[1], se[2], TRUE,
                                                       factory.board_size[1],
                                                       factory.board_size[2])
                      /\ number_of_iterations' = number_of_iterations + 1
                      /\ UNCHANGED <<pc, ships, position, restarted>>
    /\ UNCHANGED <<factory, board_vars, player_vars, ship_vars>>

\* one pass of the while loop body
TestShip ==
    /\ pc = "generate"
    /\ position < Len(lengths_in_order(factory.ships_per_length))
    /\ ~check_coordinates(factory, ships, ship_to_test)
    /\ \E condition_vertical \in randint(0, 1) :
          IF generate_random_coordinates_raises(factory, ship_length, condition_vertical)
          THEN /\ pc' = "generate_failed"
               /\ UNCHANGED <<ships, ship_to_test, number_of_iterations, position, restarted>>
          ELSE \E se \in generate_random_coordinates(factory, ship_length, condition_vertical) :
                 IF number_of_iterations + 1 > max_iterations
                 THEN \* ships = self.generate_ships(): a new call, from its first line
                      /\ ships' = << >>
                      /\ ship_to_test' = Unbuilt
                      /\ number_of_iterations' = 0
                      /\ position' = 0
                      /\ restarted' = TRUE
                      /\ UNCHANGED pc
                 ELSE /\ ship_to_test' = Ship__init__(se[1], se[2], TRUE,
                                                       factory.board_size[1],
                                                       factory.board_size[2])
                      /\ number_of_iterations' = number_of_iterations + 1
                      /\ UNCHANGED <<pc, ships, position, restarted>>
    /\ UNCHANGED <<factory, board_vars, player_vars, ship_vars>>

\* the while loop ends: ships.append(ship_to_test), and on to the next ship
AppendShip ==
    /\ pc = "generate"
    /\ position < Len(lengths_in_order(factory.ships_per_length))
    /\ check_coordinates(factory, ships, ship_to_test)
    /\ ships' = Append(ships, ship_to_test)
    /\ position' = position + 1
    /\ number_of_iterations' = 0
    /\ UNCHANGED <<pc, factory, ship_to_test, restarted, board_vars, player_vars, ship_vars>>

\* return ships
ReturnShips ==
    /\ pc = "generate"
    /\ position = Len(lengths_in_order(factory.ships_per_length))
    /\ pc' = "generated"
    /\ UNCHANGED <<factory, ships, ship_to_test, number_of_iterations, position, restarted,
                   board_vars, player_vars, ship_vars>>

NextFactory == TestShip \/ AppendShip \/ ReturnShips

SpecFactory == InitFactory /\ [][NextFactory]_vars

-----------------------------------------------------------------------------
(* Vocabulary of the properties *)

\* two cells within one grid step of each other, diagonals included
WithinOneStep(c, d) == Abs(c[1] - d[1]) <= 1 /\ Abs(c[2] - d[2]) <= 1

\* two distinct cells that share a side
Adjacent4(c, d) == Abs(c[1] - d[1]) + Abs(c[2] - d[2]) = 1

OnBoard(c) == c \in Grid

\* the recorded hits that belong to no recorded sunken ship
OpenHits ==
    { c \in Range(successful_hits) :
        \A i \in 1..Len(sunken_ships) : c \notin sunken_ships[i].cells }

\* two ships of a list share a cell, or have cells within one grid step
TooClose(list) ==
    \E i, j \in 1..Len(list) :
        /\ i # j
        /\ \E c \in list[i].cells, d \in list[j].cells : WithinOneStep(c, d)

AllOnBoard(list) == \A i \in 1..Len(list) : list[i].cells \subseteq Grid

-----------------------------------------------------------------------------
(* Properties of one ship (SpecShip) *)

\* C9: after any calls of receive_damage, has_sunk is true iff the cells passed
\* to those calls include every occupied cell of the ship, whatever the order,
\* the repeats and the calls at cells the ship does not occupy.
C9_SunkIffAllCellsDamaged ==
    pc = "ship" => (has_sunk(the_ship) <=> the_ship.cells \subseteq calls)

\* a ship of two or more cells sunk after calls that also named other cells
C9_Witness ==
    /\ pc = "ship"
    /\ has_sunk(the_ship)
    /\ length(the_ship) >= 2
    /\ calls \ the_ship.cells # {}

-----------------------------------------------------------------------------
(* Properties of one board (SpecBoard) *)

\* C7: is_attacked_at(cell) returns hit = true iff some ship occupies the cell;
\* sunk = true only with hit = true and exactly when the ship that absorbed the
\* hit was not sunk before and has all its cells damaged after (so only the
\* attack on its last undamaged cell); the attack damages the occupied cell and
\* nothing else, and an attack on a cell with no ship yields (false, false) and
\* changes no ship.
C7_AttackOutcome ==
    [][ (pc = "board" /\ pc' = "board") =>
          LET cell == target'
              occupies(i) == cell \in board.ships[i].cells
              all == 1..Len(board.ships)
          IN  /\ outcome'[1] = (\E i \in all : occupies(i))
              /\ outcome'[2] => outcome'[1]
              /\ outcome'[2] =
                    (\E i \in all :
                        /\ occupies(i)
                        /\ cell \notin board.ships[i].damaged_cells
                        /\ board.ships[i].cells \ {cell} \subseteq board.ships[i].damaged_cells)
              /\ Len(board'.ships) = Len(board.ships)
              /\ \A i \in all :
                    board'.ships[i].damaged_cells =
                        board.ships[i].damaged_cells \cup (IF occupies(i) THEN {cell} ELSE {})
              /\ (~\E i \in all : occupies(i)) => (outcome' = <<FALSE, FALSE>> /\ board' = board)
      ]_vars

\* the attack on the last undamaged cell of a ship of two or more cells
C7_Witness ==
    /\ pc = "board"
    /\ outcome = <<TRUE, TRUE>>
    /\ \E i \in 1..Len(board.ships) :
          target \in board.ships[i].cells /\ Cardinality(board.ships[i].cells) >= 2

\* C8: for a board built from a legal non-empty fleet, have_all_ships_sunk (and
\* Player.has_lost) is false before any attack, is true iff every cell of every
\* ship is damaged, and turns true exactly on the attack that returns sunk while
\* every other ship is already sunk.
C8_AllSunk ==
    /\ [](pc = "board" =>
            /\ (target = None => ~has_lost)
            /\ has_lost = have_all_ships_sunk(board)
            /\ has_lost <=>
                  \A i \in 1..Len(board.ships) :
                      board.ships[i].cells \subseteq board.ships[i].damaged_cells)
    /\ [][ (pc = "board" /\ pc' = "board") =>
            /\ has_lost => has_lost'
            /\ (~has_lost /\ has_lost') <=>
                  /\ outcome' = <<TRUE, TRUE>>
                  /\ \A i \in 1..Len(board.ships) :
                        \/ target' \in board.ships[i].cells
                        \/ board.ships[i].cells \subseteq board.ships[i].damaged_cells
       ]_vars

\* a board of two ships, both sunk
C8_Witness ==
    /\ pc = "board"
    /\ Len(board.ships) = 2
    /\ has_lost

\* C10: Board construction fails, leaving no board, whenever two ships of the
\* fleet share a cell or have cells within one grid step of each other
\* (diagonals included), and succeeds for a fleet on the board in which no two
\* ships do.
C10_CloseFleetsRejected ==
    pc \in {"board", "board_failed"} =>
        /\ TooClose(fleet) => (Raises(board) /\ pc = "board_failed")
        /\ (AllOnBoard(fleet) /\ ~TooClose(fleet)) =>
              (~Raises(board) /\ pc = "board" /\ Len(board.ships) = Len(fleet))

\* a rejected fleet of two ships on the board that touch at a corner only
C10_Witness ==
    /\ pc = "board_failed"
    /\ Len(fleet) = 2
    /\ AllOnBoard(fleet)
    /\ \A c \in fleet[1].cells, d \in fleet[2].cells :
          c # d /\ ~Adjacent4(c, d)
    /\ \E c \in fleet[1].cells, d \in fleet[2].cells : WithinOneStep(c, d)

-----------------------------------------------------------------------------
(* Properties of one game (Spec) *)

\* the cells of the opposing board's ships that are sunk
SunkOnBoard ==
    UNION { board.ships[i].cells : i \in { k \in 1..Len(board.ships) : has_sunk(board.ships[k]) } }

\* the cells of the recorded sunken ships
SunkenCellSet == UNION { sunken_ships[i].cells : i \in 1..Len(sunken_ships) }

\* C2: select_target never returns a cell it returned before: the tracker only
\* grows, by exactly the returned cell on each turn, and the returned cell was
\* outside the tracker when it was chosen.
C2_NeverRepeatsTarget ==
    [][ /\ tracker \subseteq tracker'
        /\ (pc = "select" /\ pc' = "attack") =>
              /\ last_target' \notin tracker
              /\ tracker' = tracker \cup {last_target'}
        /\ ~(pc = "select" /\ pc' = "attack") => tracker' = tracker
      ]_vars

\* a fourth cell has been selected
C2_Witness ==
    pc = "attack" /\ Cardinality(tracker) >= 4

\* C3: once a sunken ship is recorded, select_target never returns a cell within
\* one grid step (sides and diagonals) of a cell of that ship: neither of the
\* recorded segment nor of the ship sunk on the opposing board.
C3_DeadZoneRespected ==
    pc = "attack" =>
        \A c \in SunkenCellSet \cup SunkOnBoard : ~WithinOneStep(last_target, c)

\* a cell selected while a sunken ship is on record
C3_Witness ==
    pc = "attack" /\ Len(sunken_ships) >= 1

\* C4 as stated: whenever receive_result has recorded a hit without a sink, the
\* next cell select_target returns is 4-directionally adjacent to that hit cell,
\* whatever the number of open hits.
C4_NextTargetAdjacentToLastHit ==
    [][ (pc = "select" /\ pc' = "attack" /\ last_target \in OpenHits) =>
            Adjacent4(last_target, last_target')
      ]_vars

\* C4 as amended: receive_result told (hit, not sunk) leaves its cell as the
\* newest open hit; the next cell select_target returns is then 4-directionally
\* adjacent to an open hit and in line with all of them, and it is adjacent to
\* that very hit cell when it is the only open hit.
C4_NextTargetAdjacentToOpenHit ==
    [][ /\ (pc = "receive" /\ pc' = "select") =>
              ((outcome = <<TRUE, FALSE>>) <=> (last_target \in OpenHits'))
        /\ (pc = "receive" /\ outcome = <<TRUE, FALSE>>) =>
              successful_hits' = Append(successful_hits, last_target)
        /\ (pc = "select" /\ pc' = "attack" /\ last_target \in OpenHits) =>
              /\ \E h \in OpenHits : Adjacent4(h, last_target')
              /\ \/ \A h \in OpenHits : h[1] = last_target'[1]
                 \/ \A h \in OpenHits : h[2] = last_target'[2]
              /\ Cardinality(OpenHits) = 1 => Adjacent4(last_target, last_target')
      ]_vars

\* after a hit without a sink, with two open hits, the far end is selected
C4_Witness ==
    /\ pc = "attack"
    /\ Cardinality(OpenHits) >= 2
    /\ successful_hits[Len(successful_hits)] \in OpenHits
    /\ last_target \notin Range(successful_hits)
    /\ ~Adjacent4(last_target, successful_hits[Len(successful_hits)])
    /\ \E h \in OpenHits : Adjacent4(h, last_target)

\* a cell passes every filter of generate_random_target in the current mode
PassesAllFilters(c) ==
    /\ OnBoard(c)
    /\ c \notin tracker
    /\ \A d \in SunkenCellSet : ~WithinOneStep(c, d)
    /\ Cardinality(OpenHits) = 1 => \E h \in OpenHits : Adjacent4(h, c)
    /\ Cardinality(OpenHits) > 1 => c \in Range(get_better_target(is_there_a_hunt.list))

\* C5: whenever select_target is called in a game against a legal board whose
\* fleet is not all sunk, some cell passes every filter of the current mode
\* (on the board, not attacked, not near a recorded sunken ship, a hunting cell
\* during a hunt), and the loop of generate_random_target can leave with it.
C5_SomeCellPassesFilters ==
    pc = "select" =>
        /\ ~has_lost
        /\ ~Raises(is_there_a_hunt)
        /\ \E c \in Grid : PassesAllFilters(c) /\ c \in generate_random_target

\* select_target is called during a hunt with a sunken ship on record
C5_Witness ==
    /\ pc = "select"
    /\ Len(sunken_ships) >= 1
    /\ Cardinality(OpenHits) >= 1

\* C6: in a game against a legal board neither select_target nor receive_result
\* fails: every cell of every recorded sunken ship is a recorded hit, and the
\* endpoints found on a sink share a row or a column.
C6_NoFailure ==
    /\ pc # "failed"
    /\ \A i \in 1..Len(sunken_ships) : sunken_ships[i].cells \subseteq Range(successful_hits)
    /\ pc = "select" => ~Raises(is_there_a_hunt)
    /\ (pc = "receive" /\ outcome = <<TRUE, TRUE>>) =>
          LET hits == Append(successful_hits, last_target)
              se == find_start_and_end(hits, last_target)
          IN  /\ ~find_start_and_end_raises(hits, last_target)
              /\ se[1][1] = se[2][1] \/ se[1][2] = se[2][2]
              /\ ~Raises(receive_result(TRUE, TRUE))

\* the sink of a second ship, of two or more cells, is about to be recorded
C6_Witness ==
    /\ pc = "receive"
    /\ outcome = <<TRUE, TRUE>>
    /\ Len(sunken_ships) >= 1
    /\ \E i \in 1..Len(board.ships) :
          last_target \in board.ships[i].cells /\ Cardinality(board.ships[i].cells) >= 2

-----------------------------------------------------------------------------
(* Properties of the fleet generator (SpecFactory) *)

\* C1: every fleet generate_ships returns is legal: every ship cell lies within
\* [1, width] x [1, height], no two ships share a cell and no two ships have
\* cells within one grid step of each other (diagonals included), whatever the
\* random draws and the restarts.
C1_GeneratedFleetLegal ==
    pc = "generated" =>
        /\ \A i \in 1..Len(ships) : \A c \in ships[i].cells :
              /\ 1 <= c[1] /\ c[1] <= factory.board_size[1]
              /\ 1 <= c[2] /\ c[2] <= factory.board_size[2]
        /\ ~TooClose(ships)

\* a fleet of two ships returned after a restart
C1_Witness ==
    /\ pc = "generated"
    /\ Len(ships) = 2
    /\ restarted

-----------------------------------------------------------------------------
(* Properties of the board's construction (SpecBoard), continued *)

\* C11: Board construction fails, with the bounds error (ValueError) when the
\* fleet is otherwise legal, and produces no board, whenever a ship of the fleet
\* reaches beyond [1, width] x [1, height]; every board that was constructed has
\* all its ships within bounds, and keeps them so under attacks.
C11_OutOfBoundsRejected ==
    pc \in {"board", "board_failed"} =>
        /\ (\E i \in 1..Len(fleet) :
               \/ fleet[i].x_start < 1 \/ fleet[i].x_end > BoardWidth
               \/ fleet[i].y_start < 1 \/ fleet[i].y_end > BoardHeight
               \/ ~(fleet[i].cells \subseteq Grid))
              => /\ pc = "board_failed"
                 /\ Raises(board)
                 /\ (~TooClose(fleet) => board.raised = "ValueError")
        /\ pc = "board" =>
              /\ ~Raises(board)
              /\ are_ships_within_bounds(board.ships, BoardWidth, BoardHeight)
              /\ AllOnBoard(board.ships)

\* a rejected fleet of two ships far apart, one of them with a cell on the
\* board and a cell beyond it
C11_Witness ==
    /\ pc = "board_failed"
    /\ Len(fleet) = 2
    /\ ~TooClose(fleet)
    /\ board.raised = "ValueError"
    /\ fleet[1].cells \subseteq Grid
    /\ fleet[2].cells \cap Grid # {}
    /\ fleet[2].cells \ Grid # {}

-----------------------------------------------------------------------------
(* Properties of the nearness queries (SpecNear) *)

\* C12: for every ship and every cell with positive coordinates, is_near_cell
\* is true iff some occupied cell of the ship other than the cell itself is
\* within one column and one row of it: in all eight directions, the lower
\* left one included, and for ship cells on the first column, the first row and
\* the last column and row of the ship's board.
C12_NearCellIffWithinOneStep ==
    (pc = "near" /\ answer.op = "is_near_cell") =>
        (answer.value <=>
            \E cell_of_ship \in fleet[1].cells :
                cell_of_ship # target /\ WithinOneStep(cell_of_ship, target))

\* a one-cell ship in the last column of its own board, found near the cell to
\* its lower left
C12_Witness ==
    /\ pc = "near" /\ answer.op = "is_near_cell" /\ answer.value
    /\ fleet[1].board_width = BoardWidth
    /\ fleet[1].cells = {<<BoardWidth, 1>>}
    /\ target = <<BoardWidth - 1, 2>>

\* C13: for any two ships A and B on positive coordinates, A.is_near_ship(B) is
\* true iff some cell of B is within one column and one row of some other cell
\* of A, and B.is_near_ship(A) returns the same.
C13_NearShipSymmetric ==
    (pc = "near" /\ answer.op = "is_near_ship") =>
        /\ answer.value <=>
              \E a \in fleet[1].cells, b \in fleet[2].cells : a # b /\ WithinOneStep(a, b)
        /\ answer.value = answer.swapped

\* two ships of different lengths and different board sizes, sharing no cell
\* and no side, found near each other in both directions
C13_Witness ==
    /\ pc = "near" /\ answer.op = "is_near_ship" /\ answer.value /\ answer.swapped
    /\ length(fleet[1]) > length(fleet[2])
    /\ fleet[1].board_width # fleet[2].board_width
    /\ \A a \in fleet[1].cells, b \in fleet[2].cells : a # b /\ ~Adjacent4(a, b)

-----------------------------------------------------------------------------
(* Properties of one ship (SpecShip), continued *)

\* the cells on the straight line from cell a to cell b, both included
RunBetween(a, b) ==
    { c \in (Min(a[1], b[1])..Max(a[1], b[1])) \X (Min(a[2], b[2])..Max(a[2], b[2])) : TRUE }

\* C14: a ship constructed from two endpoints on a common row or column, given
\* in either order, occupies exactly the inclusive run of cells between them:
\* both endpoints are in it, its size is the axis distance + 1, length() returns
\* that size, and the set is the same after any receive_damage calls.
C14_CellsAreTheRun ==
    pc = "ship" =>
        /\ the_ship.cells = RunBetween(ship_args.start, ship_args.end)
        /\ ship_args.start \in the_ship.cells
        /\ ship_args.end \in the_ship.cells
        /\ Cardinality(the_ship.cells) =
              Abs(ship_args.start[1] - ship_args.end[1])
                + Abs(ship_args.start[2] - ship_args.end[2]) + 1
        /\ length(the_ship) = Cardinality(the_ship.cells)

\* a ship of three cells given from its right end to its left end, after
\* attacks
C14_Witness ==
    /\ pc = "ship"
    /\ ship_args.start[1] > ship_args.end[1]
    /\ length(the_ship) = 3
    /\ the_ship.damaged_cells # {}
    /\ calls \ the_ship.cells # {}

\* C15: every constructed Ship is horizontal or vertical.  Construction from
\* endpoints that differ in both column and row raises ValueError and yields no
\* ship, with validation enabled and with validation disabled; construction
\* from endpoints that share a row or a column, a single cell included, always
\* succeeds.
C15_OnlyStraightShips ==
    pc \in {"ship", "ship_failed"} =>
        LET differ_in_both == /\ ship_args.start[1] # ship_args.end[1]
                              /\ ship_args.start[2] # ship_args.end[2]
        IN  /\ differ_in_both =>
                  (pc = "ship_failed" /\ Raises(the_ship) /\ the_ship.raised = "ValueError")
            /\ ~differ_in_both => (pc = "ship" /\ ~Raises(the_ship))
            /\ pc = "ship" => (is_horizontal(the_ship) \/ is_vertical(the_ship))

\* a construction with validation disabled, from endpoints on neither a common
\* row nor a common column, has failed
C15_Witness ==
    /\ pc = "ship_failed"
    /\ ~ship_args.should_validate
    /\ ship_args.start[1] # ship_args.end[1]
    /\ ship_args.start[2] # ship_args.end[2]

\* C16: receive_damage on an occupied cell that is already damaged returns
\* True and leaves the damaged cells, their count and has_sunk as they were.
C16_RepeatedDamageChangesNothing ==
    [][ (pc = "ship" /\ pc' = "ship"
           /\ target' \in the_ship.cells /\ target' \in the_ship.damaged_cells)
        => /\ outcome'[1] = TRUE
           /\ the_ship'.damaged_cells = the_ship.damaged_cells
           /\ count_damaged_cells(the_ship') = count_damaged_cells(the_ship)
           /\ has_sunk(the_ship') = has_sunk(the_ship)
           /\ the_ship' = the_ship ]_vars

\* a damaged cell of a ship of two or more cells, not sunk, was attacked again
C16_Witness ==
    /\ pc = "ship"
    /\ target \in damaged_before
    /\ outcome = <<TRUE, FALSE>>
    /\ length(the_ship) >= 2
    /\ count_damaged_cells(the_ship) = Cardinality(damaged_before)

\* C17: receive_damage at a cell the ship does not occupy returns False and
\* leaves the damaged cells, the occupied cells and has_sunk unchanged; at an
\* occupied cell it returns True and adds exactly that cell to the damaged
\* cells.
C17_DamageOnlyWhereOccupied ==
    [][ (pc = "ship" /\ pc' = "ship") =>
          /\ target' \notin the_ship.cells =>
                /\ outcome'[1] = FALSE
                /\ the_ship'.damaged_cells = the_ship.damaged_cells
                /\ the_ship'.cells = the_ship.cells
                /\ has_sunk(the_ship') = has_sunk(the_ship)
          /\ target' \in the_ship.cells =>
                /\ outcome'[1] = TRUE
                /\ the_ship'.damaged_cells = the_ship.damaged_cells \cup {target'}
                /\ the_ship'.cells = the_ship.cells ]_vars

\* a miss on a ship that is damaged but not sunk
C17_Witness ==
    /\ pc = "ship"
    /\ target # None /\ target \notin the_ship.cells
    /\ outcome = <<FALSE, FALSE>>
    /\ the_ship.damaged_cells # {}
    /\ the_ship.damaged_cells = damaged_before
    /\ ~has_sunk(the_ship)

\* C18: in every state of a ship its damaged cells are a subset of its
\* occupied cells; they are empty right after construction; and they never
\* shrink: each receive_damage call leaves them equal to or a superset of what
\* they were.
C18_DamageWithinCellsAndGrowing ==
    /\ [](pc = "ship" =>
            /\ the_ship.damaged_cells \subseteq the_ship.cells
            /\ calls = {} => the_ship.damaged_cells = {})
    /\ [][ /\ (pc = "ship_new" /\ pc' = "ship") => the_ship'.damaged_cells = {}
           /\ (pc = "ship" /\ pc' = "ship") =>
                 the_ship.damaged_cells \subseteq the_ship'.damaged_cells ]_vars

\* the damaged cells of a ship grew from a non-empty set, after calls that
\* also named cells outside the ship
C18_Witness ==
    /\ pc = "ship"
    /\ damaged_before # {}
    /\ damaged_before \subseteq the_ship.damaged_cells
    /\ damaged_before # the_ship.damaged_cells
    /\ calls \ the_ship.cells # {}

-----------------------------------------------------------------------------
(* Properties of the fleet generator (SpecFactory), continued *)

\* the number of ships of length L that ships_per_length asks for
Requested(L) ==
    IF \E k \in 1..Len(factory.ships_per_length) : factory.ships_per_length[k].length = L
    THEN factory.ships_per_length[
             CHOOSE k \in 1..Len(factory.ships_per_length) :
                 factory.ships_per_length[k].length = L].count
    ELSE 0

\* C19: every fleet generate_ships returns holds, for each length L of
\* ships_per_length, exactly the requested number of ships of length L, and no
\* other ship; also when generation restarted on the way.
C19_RequestedShipsReturned ==
    pc = "generated" =>
        /\ \A L \in 1..(BoardWidth + BoardHeight + 1) :
              Cardinality({ i \in 1..Len(ships) : length(ships[i]) = L }) = Requested(L)
        /\ \A i \in 1..Len(ships) :
              ~Raises(ships[i]) /\ length(ships[i]) \in 1..(BoardWidth + BoardHeight + 1)

\* a fleet of two ships of different lengths returned after a restart
C19_Witness ==
    /\ pc = "generated"
    /\ restarted
    /\ Len(ships) = 2
    /\ length(ships[1]) # length(ships[2])

\* the ships one pass of the while loop can build for a ship of length L
Candidates(f, L) ==
    UNION { { Ship__init__(se[1], se[2], TRUE, f.board_size[1], f.board_size[2]) :
                se \in generate_random_coordinates(f, L, condition_vertical) } :
            condition_vertical \in
                { cv \in randint(0, 1) : ~generate_random_coordinates_raises(f, L, cv) } }

\* the ships still to place, from the one at position + 1 on, can all be
\* accepted after the ships placed so far
RECURSIVE Completable(_, _, _)
Completable(f, placed, at) ==
    \/ at = Len(lengths_in_order(f.ships_per_length))
    \/ \E c \in Candidates(f, lengths_in_order(f.ships_per_length)[at + 1]) :
          /\ check_coordinates(f, placed, c)
          /\ Completable(f, Append(placed, c), at + 1)

\* the configuration fits the board: no ship is longer than the board is wide
\* or high, and some legal placement of the whole fleet exists
Fits(f) ==
    /\ \A k \in 1..Len(f.ships_per_length) :
          /\ f.ships_per_length[k].length <= f.board_size[1]
          /\ f.ships_per_length[k].length <= f.board_size[2]
    /\ Completable(f, << >>, 0)

\* the factories of the model whose configuration fits the board
FittingFactories ==
    { f \in { [board_size |-> FactoryBoardSize, ships_per_length |-> spl] :
                spl \in ShipsPerLength } : Fits(f) }

\* the fleets generate_ships can hold after placing k ships
RECURSIVE LegalPrefixes(_, _)
LegalPrefixes(f, k) ==
    IF k = 0 THEN { << >> }
    ELSE { Append(x[1], x[2]) :
             x \in { y \in LegalPrefixes(f, k - 1)
                               \X Candidates(f, lengths_in_order(f.ships_per_length)[k]) :
                        check_coordinates(f, y[1], y[2]) } }

\* the pairs of a fitting factory and a fleet it can hold after which the ships
\* still to place can all be accepted
CompletableFleets ==
    UNION { UNION { { <<f, placed>> :
                        placed \in { q \in LegalPrefixes(f, k) : Completable(f, q, k) } } :
                    k \in 0..Len(lengths_in_order(f.ships_per_length)) } :
            f \in FittingFactories }

\* steps from the start of a fitting stretch, at position at, to the return
StepsFrom(at) == 2 * (Len(lengths_in_order(factory.ships_per_length)) - at) + 1

\* an upper bound on the number of steps generate_ships needs to return when
\* every draw from now on is the best one: through the ships still to place
\* if they can be placed, and otherwise through the draws left before the
\* restart and a fitting stretch from the empty fleet
StepsToReturn ==
    IF pc = "generated" THEN 0
    ELSE IF position = Len(lengths_in_order(factory.ships_per_length)) THEN 1
    ELSE IF check_coordinates(factory, ships, ship_to_test)
    THEN IF <<factory, Append(ships, ship_to_test)>> \in CompletableFleets
         THEN 1 + StepsFrom(position + 1)
         ELSE 1 + (max_iterations + 1) + StepsFrom(0)
    ELSE IF number_of_iterations < max_iterations /\ <<factory, ships>> \in CompletableFleets
    THEN StepsFrom(position)
    ELSE (max_iterations - number_of_iterations + 1) + StepsFrom(0)

-----------------------------------------------------------------------------
(* Properties of the fleet generator (SpecFactory): configurations that do  *)
(* not fit, and the retry budget                                            *)

\* some requested length is longer than the board is wide or high
LongerThanBoard(f) ==
    \E k \in 1..Len(f.ships_per_length) :
        \/ f.ships_per_length[k].length > f.board_size[1]
        \/ f.ships_per_length[k].length > f.board_size[2]

\* C21: when a requested ship length exceeds the board's width or height,
\* generate_ships never returns a fleet, whatever orientations are drawn.
C21_LongShipNeverReturned ==
    LongerThanBoard(factory) => pc # "generated"

-----------------------------------------------------------------------------
(* Properties of the game (Spec), continued *)

\* C22: every cell select_target returns lies within [1, width] x [1, height],
\* in search mode and in hunt mode, also when the line of open hits ends at
\* the edge of the board and a cell past one of its ends is off the board.
C22_TargetWithinBoard ==
    /\ pc \in {"attack", "receive"} =>
          /\ 1 <= last_target[1] /\ last_target[1] <= BoardWidth
          /\ 1 <= last_target[2] /\ last_target[2] <= BoardHeight
    /\ \A c \in tracker :
          /\ 1 <= c[1] /\ c[1] <= BoardWidth
          /\ 1 <= c[2] /\ c[2] <= BoardHeight

\* select_target has returned in hunt mode with two open hits or more whose
\* line ends at the edge: one of the two cells past its ends is off the board
C22_Witness ==
    /\ pc = "attack"
    /\ ~Raises(is_there_a_hunt)
    /\ Len(is_there_a_hunt.list) > 1
    /\ \E i \in 1..2 : ~OnBoard(get_better_target(is_there_a_hunt.list)[i])

\* C23: after any sequence of turns against a legal board the open hits (the
\* recorded hits that belong to no recorded sunken ship) all lie on a single
\* row or a single column, form a gap-free run of adjacent cells, and all
\* belong to one and the same ship of the opposing board, which has not sunk.
\* Between the attack that sinks that ship and receive_result the ship has sunk
\* on the board and is not recorded yet: the last part is about turn
\* boundaries.
C23_OpenHitsOneRunOfOneShip ==
    /\ \/ \A c, d \in OpenHits : c[1] = d[1]
       \/ \A c, d \in OpenHits : c[2] = d[2]
    /\ \A c, d \in OpenHits : RunBetween(c, d) \subseteq OpenHits
    /\ (OpenHits # {} /\ pc # "receive") =>
          \E i \in 1..Len(board.ships) :
              /\ OpenHits \subseteq board.ships[i].cells
              /\ ~has_sunk(board.ships[i])

\* a turn boundary with two open hits while another ship has been sunk and
\* recorded
C23_Witness ==
    /\ pc = "select"
    /\ Cardinality(OpenHits) = 2
    /\ Len(sunken_ships) = 1

\* the ships of the opposing board that have sunk, by position in board.ships
SunkShips == { k \in 1..Len(board.ships) : has_sunk(board.ships[k]) }

\* C24: whenever receive_result is told (hit, sunk) = (true, true) in a game
\* against a legal board, the ship it appends to sunken_ships has exactly the
\* cells of the ship that was just sunk on the opposing board; so at every turn
\* boundary the recorded sunken ships are exactly the sunk ships of that board,
\* one record per ship (and one record short between the attack that sinks a
\* ship and receive_result).
C24_SunkenShipsAreTheSunkShips ==
    /\ [][(pc = "receive" /\ outcome = <<TRUE, TRUE>>) =>
            /\ Len(sunken_ships') = Len(sunken_ships) + 1
            /\ SubSeq(sunken_ships', 1, Len(sunken_ships)) = sunken_ships
            /\ \E k \in 1..Len(board.ships) :
                  /\ last_target \in board.ships[k].cells
                  /\ has_sunk(board.ships[k])
                  /\ sunken_ships'[Len(sunken_ships')].cells = board.ships[k].cells]_vars
    /\ [](/\ \A i, j \in 1..Len(sunken_ships) :
                i # j => sunken_ships[i].cells # sunken_ships[j].cells
          /\ { sunken_ships[i].cells : i \in 1..Len(sunken_ships) }
                \subseteq { board.ships[k].cells : k \in SunkShips }
          /\ Len(sunken_ships) =
                Cardinality(SunkShips)
                    - (IF pc = "receive" /\ outcome = <<TRUE, TRUE>> THEN 1 ELSE 0))

\* two ships, the second of two cells or more, have been sunk and recorded
C24_Witness ==
    /\ pc = "over"
    /\ Len(sunken_ships) = 2
    /\ Cardinality(sunken_ships[2].cells) >= 2

\* the two cells just past the ends of the open hits, along their axis
BeyondOpenHits ==
    IF \A c, d \in OpenHits : c[1] = d[1]
    THEN { <<c[1], c[2] - 1>> : c \in { e \in OpenHits : \A d \in OpenHits : e[2] <= d[2] } }
         \cup { <<c[1], c[2] + 1>> : c \in { e \in OpenHits : \A d \in OpenHits : e[2] >= d[2] } }
    ELSE { <<c[1] - 1, c[2]>> : c \in { e \in OpenHits : \A d \in OpenHits : e[1] <= d[1] } }
         \cup { <<c[1] + 1, c[2]>> : c \in { e \in OpenHits : \A d \in OpenHits : e[1] >= d[1] } }

\* C25: when two or more open hits exist, the cell select_target returns is one
\* of the two cells immediately past the minimum and the maximum open hit along
\* the axis of the open hits (same column for a vertical run, same row for a
\* horizontal one), and never any other cell.
C25_TargetPastAnEndOfTheRun ==
    (pc = "attack" /\ Cardinality(OpenHits) >= 2) =>
        /\ Cardinality(BeyondOpenHits) = 2
        /\ last_target \in BeyondOpenHits

\* select_target has returned with two open hits on a row, after an earlier
\* sink: the target is the cell of the row past the run
C25_Witness ==
    /\ pc = "attack"
    /\ Cardinality(OpenHits) = 2
    /\ \A c, d \in OpenHits : c[2] = d[2]
    /\ Len(sunken_ships) = 1
    /\ last_target \in BeyondOpenHits \cap Grid

\* C26: when exactly one open hit exists, the cell select_target returns is on
\* the board, was not attacked before, and is a neighbour of that hit in one
\* of the four directions, never a diagonal one.
C26_TargetBesideTheSingleOpenHit ==
    [][(pc = "select" /\ pc' = "attack" /\ Cardinality(OpenHits) = 1) =>
          /\ last_target' \in Grid
          /\ last_target' \notin tracker
          /\ \A h \in OpenHits :
                /\ Adjacent4(last_target', h)
                /\ last_target'[1] = h[1] \/ last_target'[2] = h[2]]_vars

\* select_target has returned with a single open hit, one of whose four
\* neighbours had been attacked before and another is off the board
C26_Witness ==
    /\ pc = "attack"
    /\ Cardinality(OpenHits) = 1
    /\ \E h \in OpenHits :
          /\ Adjacent4(last_target, h)
          /\ \E c \in tracker \ {last_target} : Adjacent4(c, h) /\ c \notin Range(successful_hits)
          /\ \E c \in Beyond \ Grid : Adjacent4(c, h)

\* some ship of the opposing board is damaged and has not sunk
SomeShipDamagedAfloat ==
    \E k \in 1..Len(board.ships) :
        board.ships[k].damaged_cells # {} /\ ~has_sunk(board.ships[k])

\* C27: in a game where the engine is the only attacker of a legal board, at
\* every turn boundary the engine is in hunt mode (is_there_a_hunt returns a
\* non-empty list: the open hits) iff some ship of that board is damaged but
\* not sunk; and right after receive_result has recorded a sink the open hits
\* are empty: the engine is back in search mode.
C27_HuntIffDamagedShipAfloat ==
    /\ [](pc \in {"select", "attack", "over"} =>
            /\ ~Raises(is_there_a_hunt)
            /\ Range(is_there_a_hunt.list) = OpenHits
            /\ (Len(is_there_a_hunt.list) > 0) <=> SomeShipDamagedAfloat)
    /\ [][(pc = "receive" /\ outcome = <<TRUE, TRUE>>) =>
            /\ pc' \in {"select", "over"}
            /\ OpenHits' = {}]_vars

\* a turn boundary in search mode after a sink, another ship being untouched
C27_Witness ==
    /\ pc = "select"
    /\ Len(sunken_ships) = 1
    /\ OpenHits = {}
    /\ \E k \in 1..Len(board.ships) : board.ships[k].damaged_cells = {}

\* the cells of the ships of the opposing board that have not sunk
AfloatCells ==
    UNION { board.ships[k].cells : k \in (1..Len(board.ships)) \ SunkShips }

\* C28: in every reachable state of a game against a legal board, no cell of a
\* ship that has not sunk is within the dead zone of a recorded sunken ship
\* (the ship's cells and the cells one step from them, diagonals included): the
\* dead-zone filter of generate_random_target never rejects a cell of a ship
\* that is still afloat.
C28_DeadZoneHoldsNoAfloatShip ==
    \A c \in AfloatCells :
        /\ ~(are_there_sunken_ships /\ is_close_to_ship(c))
        /\ \A d \in SunkenCellSet : ~WithinOneStep(c, d)

\* a sunken ship of two cells is on record while another ship is afloat
C28_Witness ==
    /\ pc = "select"
    /\ Len(sunken_ships) = 1
    /\ Cardinality(sunken_ships[1].cells) = 2
    /\ AfloatCells # {}

\* C29: a game in which the engine repeatedly selects a target, the legal
\* opposing board resolves it and the outcome is fed back, reaches the state
\* where the board reports all its ships sunk, after at most width x height
\* attacks: every selection adds one cell to the tracker, the tracker never
\* holds more cells than the board has, and the game comes to its end with
\* has_lost() true.
C29_AllSunkWithinBoardSizeAttacks ==
    /\ <>(pc = "over" /\ has_lost)
    /\ [](Cardinality(tracker) <= BoardWidth * BoardHeight)
    /\ [][(pc = "select" /\ pc' # "select") =>
             /\ pc' = "attack"
             /\ Cardinality(tracker') = Cardinality(tracker) + 1]_vars

\* the game is over, two ships sunk, with cells of the board never attacked
C29_Witness ==
    /\ pc = "over"
    /\ has_lost
    /\ Len(board.ships) = 2
    /\ Cardinality(tracker) < BoardWidth * BoardHeight
    /\ Cardinality(tracker) > Cardinality(SunkOnBoard)

\* the while loop of generate_ships is about to draw a candidate
DrawsCandidate ==
    /\ pc = "generate"
    /\ position < Len(lengths_in_order(factory.ships_per_length))
    /\ ~check_coordinates(factory, ships, ship_to_test)

\* C30: during fleet generation at most max_iterations = 1000 candidates are
\* tested for any one ship; when a further candidate is drawn for that ship
\* the whole generation restarts from an empty fleet, at the first ship; before
\* that the fleet is left as it is.  The fleet holds exactly the ships accepted
\* since the last restart, one per ship the loops have passed, so the fleet
\* finally returned consists only of ships accepted after the last restart.
C30_RetryBudgetAndRestart ==
    /\ [](/\ number_of_iterations \in 0..max_iterations
          /\ pc \in {"generate", "generated"} => Len(ships) = position
          /\ pc = "generated" =>
                Len(ships) = Len(lengths_in_order(factory.ships_per_length)))
    /\ [][(DrawsCandidate /\ number_of_iterations = max_iterations) =>
            \/ pc' = "generate_failed"
            \/ /\ ships' = << >>
               /\ position' = 0
               /\ number_of_iterations' = 0
               /\ ship_to_test' = Unbuilt
               /\ restarted']_vars
    /\ [][(DrawsCandidate /\ number_of_iterations < max_iterations) =>
            \/ pc' = "generate_failed"
            \/ /\ ships' = ships
               /\ position' = position
               /\ number_of_iterations' = number_of_iterations + 1
               /\ restarted' = restarted]_vars
    /\ [][ships' # ships =>
            \/ ships' = << >> /\ number_of_iterations = max_iterations
            \/ ships' = Append(ships, ship_to_test) /\ position' = position + 1]_vars

\* a fleet of two ships is returned after a restart that threw away a ship
\* accepted before it
C30_Witness ==
    /\ pc = "generated"
    /\ restarted
    /\ Len(ships) = 2
    /\ factory.ships_per_length = << [length |-> 1, count |-> 2] >>

\* C31: receive_result with hit = false leaves the recorded hits and the
\* recorded sunken ships unchanged, whatever sunk is; with hit = true and
\* sunk = false it appends exactly the last selected target to the recorded
\* hits and leaves the sunken ships unchanged; and no step of the game ever
\* removes a cell from the tracker of attacked cells.
C31_ReceiveResultFrame ==
    /\ [](/\ \A has_ship_sunk \in BOOLEAN :
                receive_result(FALSE, has_ship_sunk) =
                    [successful_hits |-> successful_hits, sunken_ships |-> sunken_ships]
          /\ receive_result(TRUE, FALSE) =
                [successful_hits |-> Append(successful_hits, last_target),
                 sunken_ships |-> sunken_ships])
    /\ [][(pc = "receive" /\ ~outcome[1]) =>
            /\ successful_hits' = successful_hits
            /\ sunken_ships' = sunken_ships]_vars
    /\ [][(pc = "receive" /\ outcome = <<TRUE, FALSE>>) =>
            /\ successful_hits' = Append(successful_hits, last_target)
            /\ sunken_ships' = sunken_ships]_vars
    /\ [][tracker \subseteq tracker']_vars

\* receive_result has been told of a miss after a hit and a sink were recorded:
\* the open hit and the sunken ship are still on record
C31_Witness ==
    /\ pc = "select"
    /\ last_target \in tracker
    /\ last_target \notin Range(successful_hits)
    /\ Cardinality(OpenHits) = 1
    /\ Len(sunken_ships) = 1

\* the cells of H that a walk from cell c through side-by-side cells of H
\* reaches, c included: grown[k] holds those at most k steps away
Component4(H, c) ==
    LET grown[k \in 0..Cardinality(H)] ==
            IF k = 0 THEN {c}
            ELSE The({ S \cup { d \in H : \E e \in S : Adjacent4(d, e) } :
                       S \in { grown[k - 1] } })
    IN  grown[Cardinality(H)]

\* the flood fill from cell over the list hits ends, and gathers each cell of
\* the component of cell once, cell itself left out
FloodFillIsComponent4(hits, cell) ==
    The({ /\ RecursionError \notin Range(gathered)
          /\ Range(gathered) = Component4(Range(hits), cell) \ {cell}
          /\ Len(gathered) = Cardinality(Range(gathered)) :
          gathered \in { get_all_cells(hits, cell, cell, BoardWidth * BoardHeight + 1) } })

\* C32: in every reachable state of a game against a legal board, the flood
\* fill get_all_cells from a recorded hit cell (which follows the neighbours of
\* get_neighbours, diagonals included) terminates and gathers exactly the
\* recorded hit cells connected to that cell through side-by-side hits: the
\* component a traversal in the four directions collects (the cell itself is
\* added by the caller, find_start_and_end).  The same holds for the fill
\* receive_result starts from the last target once that hit is appended.
C32_FloodFillGathersComponent ==
    /\ \A cell \in Range(successful_hits) : FloodFillIsComponent4(successful_hits, cell)
    /\ (pc = "receive" /\ outcome[1]) =>
          FloodFillIsComponent4(Append(successful_hits, last_target), last_target)

\* a sink of a ship of three cells is about to be recorded while the hits of
\* another sunken ship are on record
C32_Witness ==
    /\ pc = "receive"
    /\ outcome = <<TRUE, TRUE>>
    /\ Len(sunken_ships) = 1
    /\ Cardinality(Component4(Range(successful_hits) \cup {last_target}, last_target)) = 3

====
